---- MODULE Spec2Model ----
(***************************************************************************)
(* Rate My Fit: the client pipeline of src/src/App.tsx (select an image,   *)
(* detect people, crop each detection, rate each crop) as a state machine. *)
(*                                                                         *)
(* State is the React state of <App> plus every started detectPeople run   *)
(* (an async closure: its captured selectedFile/previewUrl, its locals and *)
(* the await it is suspended at) and the network requests in flight.       *)
(* One action is one event-loop task: a user event handler, or the         *)
(* continuation of a run from one await to the next.                       *)
(*                                                                         *)
(* Geometry is in half pixels (every length is stored doubled), so that    *)
(* x - width/2 of integer pixel boxes stays an integer.                    *)
(***************************************************************************)
EXTENDS Integers, Sequences, FiniteSets, TLC

(***************************************************************************)
(* Bounds of the model.                                                    *)
(***************************************************************************)
\* number of distinct images the user can pick
NumImages == 2
\* longest predictions list the detector returns in a pipeline run
MaxPeople == 2
\* run slots: how many detectPeople closures can be suspended at once
MaxRuns == 2
\* width and height, in pixels, of every image of a pipeline run
ImgSize == 4
\* crop geometry (specification SpecCrop): largest image side, in pixels
MaxImg == 3
\* crop geometry: largest centre coordinate of a detection, in pixels
MaxCoord == 4
\* crop geometry: largest width/height of a detection, in pixels
MaxBox == 4

VARIABLES
    selectedFile,   \* useState<File|null>            App.tsx:104
    previewUrl,     \* useState<string|null>          App.tsx:105
    isProcessing,   \* useState<boolean>              App.tsx:106
    outfitRatings,  \* useState<OutfitRating[]>       App.tsx:107
    error,          \* useState<string|null>          App.tsx:108
    imageSize,      \* img.width/img.height of each image once decoded
    runs,           \* the detectPeople invocations, one record per slot
    net,            \* fetch requests sent and not yet settled
    client,         \* the module-level constants of App.tsx  App.tsx:27-29
    relay           \* the Relay's handler invocations, one record per request

vars == <<selectedFile, previewUrl, isProcessing, outfitRatings, error,
          imageSize, runs, net, client, relay>>

Images == 1..NumImages
RunIds == 1..MaxRuns

\* useState<File | null>(null): no file selected
NoFile == 0
\* useState<string | null>(null): no preview URL
NoUrl == 0
\* useState<string | null>(null): the error state holding null
Null == "null"
\* the value of err.message when the rejection value is not an Error
Undefined == "undefined"

\* JavaScript values held in an OutfitRating: a number, null or undefined
\* for rating; a string (a sequence of chunks: the characters of an answer
\* text, or a whole message as one chunk) or undefined for feedback
Num(n) == [type |-> "number", value |-> n]
NullValue == [type |-> "null", value |-> 0]
UndefinedValue == [type |-> "undefined", value |-> 0]
Str(chunks) == [type |-> "string", chars |-> chunks]
UndefinedStr == [type |-> "undefined", chars |-> <<>>]

Max(a, b) == IF a >= b THEN a ELSE b
Min(a, b) == IF a <= b THEN a ELSE b

(***************************************************************************)
(* Crop Extractor: the body of predictions.map in cropDetectedPeople.      *)
(* A prediction is [x, y, width, height, confidence] with x, y the centre, *)
(* in pixels.  Everything computed from it is in half pixels.              *)
(***************************************************************************)
\* const sourceX = Math.max(0, x - width / 2)              (half pixels)
sourceX(p) == Max(0, 2 * p.x - p.width)
\* const sourceY = Math.max(0, y - height / 2)
sourceY(p) == Max(0, 2 * p.y - p.height)

\* const actualWidth = Math.min(width, img.width - sourceX)
actualWidth(p, imgW) == Min(2 * p.width, 2 * imgW - sourceX(p))
\* const actualHeight = Math.min(height, img.height - sourceY)
actualHeight(p, imgH) == Min(2 * p.height, 2 * imgH - sourceY(p))

\* the source rectangle handed to ctx.drawImage(img, sx, sy, sw, sh, ...)
drawRegion(p, imgW, imgH) ==
    [sx |-> sourceX(p), sy |-> sourceY(p),
     sw |-> actualWidth(p, imgW), sh |-> actualHeight(p, imgH)]

\* canvas.width/height = actualWidth/actualHeight: a side in [0, 1) pixel
\* truncates to 0 and the canvas has no pixels
canvasEmpty(reg) ==
    \/ (reg.sw >= 0 /\ reg.sw < 2)
    \/ (reg.sh >= 0 /\ reg.sh < 2)

JpegPrefix == "data:image/jpeg;base64,"
EmptyCanvasUrl == "data:,"

\* canvas.toDataURL("image/jpeg", 0.8): a string, held as its prefix and the
\* payload that follows; the payload of a drawn canvas names the pixels it
\* encodes, a canvas without pixels yields "data:,"
toDataURL(url, reg) ==
    IF canvasEmpty(reg)
    THEN [prefix |-> EmptyCanvasUrl, payload |-> <<>>]
    ELSE [prefix |-> JpegPrefix,
          payload |-> <<url, reg.sx, reg.sy, reg.sw, reg.sh>>]

\* ids shifted by one: index + 1 instead of index
cropIdOneBased(index) == index + 1
\* id: index   (the zero-based position in predictions)
cropId(index) == index

\* one element of predictions.map((prediction, index) => ...); index is
\* zero-based
cropOne(p, index, url, imgW, imgH) ==
    LET reg == drawRegion(p, imgW, imgH) IN
    [id |-> cropId(index),
     dataUrl |-> toDataURL(url, reg),
     bbox |-> [x |-> 2 * p.x, y |-> 2 * p.y,
               width |-> reg.sw, height |-> reg.sh],
     confidence |-> p.confidence]

\* img.onload: const crops = predictions.map(...); resolve(crops)
cropsOnLoad(predictions, url, imgW, imgH) ==
    [i \in 1..Len(predictions) |->
        cropOne(predictions[i], i - 1, url, imgW, imgH)]

\* the guard opening cropDetectedPeople: return [] without loading
cropEarlyReturn(predictions, url) ==
    \/ Len(predictions) = 0
    \/ url = NoUrl

(***************************************************************************)
(* Rating Client: rateIndividualOutfit.                                    *)
(* An answer text (data.content[0].text) is either a JSON object, held by  *)
(* its fields, or a sequence of characters; which character sequences are   *)
(* JSON too (numbers, true, false, null) is decided by JSONParse.          *)
(***************************************************************************)
\* prefixes matched by /^data:image\/\w+;base64,/
ImageDataPrefixes ==
    {JpegPrefix, "data:image/png;base64,", "data:image/webp;base64,"}

\* imageDataUrl.replace(/^data:image\/\w+;base64,/, "")
base64Image(u) ==
    IF u.prefix \in ImageDataPrefixes
    THEN [prefix |-> "", payload |-> u.payload]
    ELSE u

\* the test of the stripped image data dropped
invalidBase64Never(b) == FALSE
\* if (!base64Image || typeof base64Image !== "string"): the empty string
invalidBase64(b) == b.prefix = "" /\ b.payload = <<>>

Digits == {"0", "1", "2", "3", "4", "5", "6", "7", "8", "9"}
Letters ==
    {"a", "b", "c", "d", "e", "f", "g", "h", "i", "j", "k", "l", "m",
     "n", "o", "p", "q", "r", "s", "t", "u", "v", "w", "x", "y", "z",
     "A", "B", "C", "D", "E", "F", "G", "H", "I", "J", "K", "L", "M",
     "N", "O", "P", "Q", "R", "S", "T", "U", "V", "W", "X", "Y", "Z"}
\* \w and the characters \b tells apart from the rest
WordChars == Digits \cup Letters \cup {"_"}

DigitValue(c) ==
    CASE c = "0" -> 0 [] c = "1" -> 1 [] c = "2" -> 2 [] c = "3" -> 3
      [] c = "4" -> 4 [] c = "5" -> 5 [] c = "6" -> 6 [] c = "7" -> 7
      [] c = "8" -> 8 [] c = "9" -> 9

\* the last index of the run of digits that starts at p (\d+ is greedy)
RECURSIVE DigitRunEnd(_, _)
DigitRunEnd(t, p) ==
    IF p < Len(t) /\ t[p + 1] \in Digits THEN DigitRunEnd(t, p + 1) ELSE p

\* parseInt of the digits t[a..b]
RECURSIVE parseInt(_, _, _)
parseInt(t, a, b) ==
    IF b < a THEN 0 ELSE 10 * parseInt(t, a, b - 1) + DigitValue(t[b])

\* (\d+)\/10 matching at p: the whole run of digits, then "/10"
matchSlashTen(t, p) ==
    /\ t[p] \in Digits
    /\ LET e == DigitRunEnd(t, p) IN
         /\ e + 3 <= Len(t)
         /\ t[e + 1] = "/"
         /\ t[e + 2] = "1"
         /\ t[e + 3] = "0"

\* \b(\d+)\b matching at p: a run of digits with no word character on
\* either side
matchStandalone(t, p) ==
    /\ t[p] \in Digits
    /\ (p = 1 \/ t[p - 1] \notin WordChars)
    /\ LET e == DigitRunEnd(t, p) IN
         e = Len(t) \/ t[e + 1] \notin WordChars

\* the positions at which /(\d+)\/10|\b(\d+)\b/ matches
matchPositions(t) ==
    {p \in 1..Len(t) : matchSlashTen(t, p) \/ matchStandalone(t, p)}

\* the score returned as extracted, without Math.min/Math.max
clampScoreIdentity(n) == n
\* Math.min(Math.max(score, 1), 10)
clampScore(n) == Min(Max(n, 1), 10)

\* const scoreMatch = content.match(/(\d+)\/10|\b(\d+)\b/): the leftmost
\* match; const score = scoreMatch ? parseInt(scoreMatch[1] || scoreMatch[2]) : 5
fallbackScore(t) ==
    IF matchPositions(t) = {}
    THEN 5
    ELSE LET p == CHOOSE q \in matchPositions(t) :
                      \A r \in matchPositions(t) : q <= r
         IN parseInt(t, p, DigitRunEnd(t, p))

\* t without its leading and trailing JSON whitespace
RECURSIVE TrimLeft(_)
TrimLeft(t) ==
    IF Len(t) > 0 /\ t[1] = " " THEN TrimLeft(Tail(t)) ELSE t
RECURSIVE TrimRight(_)
TrimRight(t) ==
    IF Len(t) > 0 /\ t[Len(t)] = " "
    THEN TrimRight(SubSeq(t, 1, Len(t) - 1))
    ELSE t

\* a JSON integer literal: 0, or digits not starting with 0
IsJSONNumber(t) ==
    /\ Len(t) > 0
    /\ \A i \in 1..Len(t) : t[i] \in Digits
    /\ (Len(t) = 1 \/ t[1] # "0")

IsJSONLiteral(t) ==
    t \in {<<"t", "r", "u", "e">>, <<"f", "a", "l", "s", "e">>,
           <<"n", "u", "l", "l">>}

\* JSON.parse(content): ok says whether it returns; value is what it
\* returns, as far as the caller reads it (score and feedback of an object,
\* undefined properties of a number or boolean; isNull for null)
JSONParse(content) ==
    IF content.object
    THEN [ok |-> TRUE, isNull |-> FALSE,
          score |-> content.score, feedback |-> content.feedback]
    ELSE LET t == TrimRight(TrimLeft(content.chars)) IN
         IF t = <<"n", "u", "l", "l">>
         THEN [ok |-> TRUE, isNull |-> TRUE,
               score |-> UndefinedValue, feedback |-> UndefinedStr]
         ELSE IF IsJSONNumber(t) \/ IsJSONLiteral(t)
         THEN [ok |-> TRUE, isNull |-> FALSE,
               score |-> UndefinedValue, feedback |-> UndefinedStr]
         ELSE [ok |-> FALSE, isNull |-> FALSE,
               score |-> UndefinedValue, feedback |-> UndefinedStr]

\* an answer text that is a JSON object with these score and feedback fields
ObjectText(score, feedback) ==
    [object |-> TRUE, score |-> score, feedback |-> feedback, chars |-> <<>>]
\* an answer text given by its characters
CharsText(chars) ==
    [object |-> FALSE, score |-> UndefinedValue, feedback |-> UndefinedStr,
     chars |-> chars]

\* what the service answers to fetch("/api/rate-outfit"), as far as
\* rateIndividualOutfit reads it: transport "fail" rejects fetch; json FALSE
\* makes response.json() reject; type is data.type; errorMessage is
\* data.error.message ("" when absent); hasContent says whether
\* data.content[0] exists; content is data.content[0].text
RateResponse(transport, json, type, errorMessage, hasContent, content) ==
    [transport |-> transport, json |-> json, type |-> type,
     errorMessage |-> errorMessage, hasContent |-> hasContent,
     content |-> content]

\* the place of an answer for a call that sent no request
NoAnswer == RateResponse("none", FALSE, "none", "", FALSE, CharsText(<<>>))

Threw(message) ==
    [threw |-> TRUE, message |-> message, isNull |-> FALSE,
     score |-> UndefinedValue, feedback |-> UndefinedStr]
Returned(isNull, score, feedback) ==
    [threw |-> FALSE, message |-> "", isNull |-> isNull,
     score |-> score, feedback |-> feedback]

\* the parsed score forced into 1..10 like the fallback's
parsedRatingClamped(parsed) ==
    Returned(parsed.isNull,
             IF parsed.score.type = "number"
             THEN Num(Min(Max(parsed.score.value, 1), 10))
             ELSE parsed.score,
             parsed.feedback)
\* return parsed: the value of JSON.parse(content) as it is
parsedRating(parsed) ==
    Returned(parsed.isNull, parsed.score, parsed.feedback)

\* the catch branch of the parse: fallback extraction
fallbackRating(content) ==
    Returned(FALSE, Num(clampScore(fallbackScore(content.chars))),
             Str(content.chars))

\* rateIndividualOutfit from const data = await response.json() on: what the
\* call returns or throws for a response
rateIndividualOutfitResult(resp) ==
    IF resp.transport = "fail" THEN Threw("Failed to fetch")
    ELSE IF ~resp.json THEN Threw("Unexpected token < in JSON at position 0")
    ELSE IF resp.type = "error"
    THEN Threw(IF resp.errorMessage # "" THEN resp.errorMessage
               ELSE "Failed to rate outfit")
    ELSE IF \/ ~resp.hasContent
            \/ (~resp.content.object /\ resp.content.chars = <<>>)
    THEN Threw("Invalid response format from Claude API")
    ELSE LET parsed == JSONParse(resp.content) IN
         IF parsed.ok
         THEN parsedRating(parsed)
         ELSE fallbackRating(resp.content)

(***************************************************************************)
(* Orchestrator: rateOutfits and detectPeople, as steps of a run record.   *)
(* A run is a record: pc is the await it is suspended at (or how it       *)
(* ended), file and url are the selectedFile and previewUrl its closure    *)
(* captured, predictions, crops and ratings are its locals, err is the     *)
(* error on its way to catch.  The other fields record what the run did:   *)
(* detectKind (how far the detector's response got), cropCalled (whether   *)
(* cropDetectedPeople was called), imgLoad (which of onload/onerror        *)
(* fired), drawn (the source rectangles given to drawImage), calls (what   *)
(* each rateIndividualOutfit call returned or threw), answers (what the     *)
(* rating service answered to each call, NoAnswer where no request was     *)
(* sent), writes (how often                                                *)
(* the run called setOutfitRatings) and prevDone (the file of the run that *)
(* had ended Done in this slot when this one started, NoFile otherwise).   *)
(***************************************************************************)
IdleRun ==
    [pc |-> "idle", file |-> NoFile, url |-> NoUrl, predictions |-> <<>>,
     crops |-> <<>>, ratings |-> <<>>, err |-> "",
     detectKind |-> "", cropCalled |-> FALSE, imgLoad |-> "none",
     drawn |-> <<>>, calls |-> <<>>, answers |-> <<>>, writes |-> 0,
     prevDone |-> NoFile]

\* a run suspended at an await
ActivePcs == {"readFile", "detectFetch", "cropLoad", "rate"}
Active(k) == runs[k].pc \in ActivePcs

\* throw new Error(msg) / a rejected await, on its way to catch (err)
throwError(r, msg) == [r EXCEPT !.pc = "throw", !.err = msg]

\* ratings.push({id: crop.id + 1, ...}): an id off by one
ratingEntryShifted(crop, res) ==
    [id |-> crop.id + 1, rating |-> res.score, feedback |-> res.feedback,
     crop |-> crop, error |-> FALSE]
\* ratings.push({id: crop.id, rating: rating.score, feedback: rating.feedback,
\* crop: {...crop, dataUrl: imageData}})
ratingEntry(crop, res) ==
    [id |-> crop.id, rating |-> res.score, feedback |-> res.feedback,
     crop |-> crop, error |-> FALSE]

\* ratings.push({id: crop.id, rating: null, feedback: err.message,
\* crop: {...crop}, error: true})
failedEntry(crop, message) ==
    [id |-> crop.id, rating |-> NullValue, feedback |-> Str(<<message>>),
     crop |-> crop, error |-> TRUE]

NullScoreMessage == "Cannot read properties of null (reading 'score')"

\* the try block of the loop without its catch: a throwing call ends the run
rateOutfitsSettleNoCatch(r, res) ==
    LET crop == r.crops[Len(r.ratings) + 1] IN
    IF res.threw
    THEN throwError([r EXCEPT !.calls = Append(@, res)], res.message)
    ELSE [r EXCEPT !.ratings = Append(@, ratingEntry(crop, res)),
                   !.calls = Append(@, res)]
\* one iteration of for (const crop of crops) from the point the awaited
\* rateIndividualOutfit(imageData) settles with res: try pushes the rating
\* (reading rating.score of null throws into the same catch), catch pushes
\* the failed entry
rateOutfitsSettle(r, res) ==
    LET crop == r.crops[Len(r.ratings) + 1] IN
    [r EXCEPT !.ratings =
                 Append(@, IF res.threw THEN failedEntry(crop, res.message)
                           ELSE IF res.isNull
                           THEN failedEntry(crop, NullScoreMessage)
                           ELSE ratingEntry(crop, res)),
              !.calls = Append(@, res)]

\* the for loop of rateOutfits from its current position up to the next
\* await that suspends, or to setOutfitRatings(ratings) after the last crop;
\* a crop whose payload is empty throws before any request is sent
RECURSIVE rateLoop(_)
rateLoop(r) ==
    IF r.pc = "throw" THEN r
    ELSE IF Len(r.ratings) >= Len(r.crops) THEN [r EXCEPT !.pc = "publish"]
    ELSE LET crop == r.crops[Len(r.ratings) + 1] IN
         IF invalidBase64(base64Image(crop.dataUrl))
         THEN rateLoop(rateOutfitsSettle(
                         [r EXCEPT !.answers = Append(@, NoAnswer)],
                         Threw("Invalid base64 image data")))
         ELSE [r EXCEPT !.pc = "rate"]

\* the length test dropped: an empty crops list goes on to rateOutfits
cropsMissingNever(crops) == FALSE
\* if (crops.length === 0)
cropsMissing(crops) == Len(crops) = 0

\* detectPeople from the point crops is known: throw on no crops, else
\* await rateOutfits(crops)
afterCrops(r) ==
    IF cropsMissing(r.crops)
    THEN throwError(r, "Failed to create crops from detected people")
    ELSE rateLoop([r EXCEPT !.ratings = <<>>])

\* img.onload / img.onerror of cropDetectedPeople, then the rest of
\* detectPeople up to the next await; size is [w, h] of the decoded image.
\* predictions.map of a value that is no array throws inside onload: the
\* promise is never settled and detectPeople stays at its await
afterImageLoad(r, loaded, size) ==
    IF loaded /\ r.detectKind = "predictionsNotArray"
    THEN [r EXCEPT !.imgLoad = "onloadThrew"]
    ELSE IF loaded
    THEN afterCrops(
           [r EXCEPT !.crops = cropsOnLoad(r.predictions, r.url, size.w, size.h),
                     !.drawn = [i \in 1..Len(r.predictions) |->
                                  drawRegion(r.predictions[i], size.w, size.h)],
                     !.imgLoad = "onload"])
    ELSE afterCrops([r EXCEPT !.crops = <<>>, !.imgLoad = "onerror"])

\* the length test dropped: an empty predictions list goes on to cropping
noPeopleDetectedNever(predictions) == FALSE
\* if (predictions.length === 0)
noPeopleDetected(predictions) == Len(predictions) = 0

\* detectPeople from the point fetch(ROBOFLOW_MODEL_URL) settles up to the
\* next await.  resp is [kind, predictions]: kind names how far the
\* response gets through the checks
afterDetectResponse(r0, resp) ==
    LET r == [r0 EXCEPT !.detectKind = resp.kind,
                        !.predictions = resp.predictions] IN
    CASE resp.kind = "networkError" -> throwError(r, "Failed to fetch")
      [] resp.kind = "httpError" ->
           throwError(r, "Failed to detect people in image: Internal Server Error")
      [] resp.kind = "invalidJson" ->
           throwError(r, "Unexpected token < in JSON at position 0")
      [] resp.kind = "noOutputs" ->
           throwError(r, "Invalid response format from Roboflow API")
      [] resp.kind = "noPredictions" ->
           throwError(r, "No predictions found in the API response")
      [] resp.kind = "predictionsNotArray" ->
           \* a truthy value with no length and no map passes both tests:
           \* predictions.length === 0 is false here and in the guard of
           \* cropDetectedPeople
           IF r.url = NoUrl
           THEN afterCrops([r EXCEPT !.cropCalled = TRUE, !.crops = <<>>])
           ELSE [r EXCEPT !.cropCalled = TRUE, !.pc = "cropLoad"]
      [] resp.kind = "predictions" ->
           IF noPeopleDetected(resp.predictions)
           THEN throwError(r, "No people detected in the image")
           ELSE IF cropEarlyReturn(resp.predictions, r.url)
           THEN afterCrops([r EXCEPT !.cropCalled = TRUE, !.crops = <<>>])
           ELSE [r EXCEPT !.cropCalled = TRUE, !.pc = "cropLoad"]

\* detectPeople from the point fileToBase64(selectedFile) settles
afterFileRead(r, outcome) ==
    CASE outcome = "ok" -> [r EXCEPT !.pc = "detectFetch"]
      [] outcome = "notString" -> throwError(r, "Failed to read file as base64")
      [] outcome = "readerError" -> throwError(r, Undefined)

\* every remaining crop requested at once instead of one per iteration
requestsFanOut(k, r) ==
    IF r.pc = "detectFetch" THEN {[run |-> k, kind |-> "detect", idx |-> 0]}
    ELSE IF r.pc = "rate"
    THEN {[run |-> k, kind |-> "rate", idx |-> i] :
             i \in Len(r.ratings)..(Len(r.crops) - 1)}
    ELSE {}
\* the request run k has outstanding when suspended as r: the fetch of
\* detectPeople, or the fetch of rateIndividualOutfit for the crop the loop
\* is at (idx is the crop's zero-based position)
requests(k, r) ==
    IF r.pc = "detectFetch" THEN {[run |-> k, kind |-> "detect", idx |-> 0]}
    ELSE IF r.pc = "rate"
    THEN {[run |-> k, kind |-> "rate", idx |-> Len(r.ratings)]}
    ELSE {}

(***************************************************************************)
(* Configuration and the Relay.  The client's constants are read from the  *)
(* environment of its build; the Relay reads its credential from the       *)
(* environment of its process.  A handler invocation of the Relay is a     *)
(* record: pc is the await it is suspended at (or how it ended), raw is    *)
(* the body the caller sent, calls are the upstream calls it made, answer  *)
(* is what the rating service answered, responses are the responses it     *)
(* gave the caller.                                                        *)
(***************************************************************************)
\* the rating-service credential, the detector key and the detector URL as
\* the environment files spell them
RatingSecret == "sk-ant-secret"
DetectorKey == "rf-key"
DetectorUrl == "https://detect.roboflow.com/workflow"

\* an environment: the three REACT_APP_ variables, Undefined where not set
Env(roboflowKey, roboflowUrl, claudeKey) ==
    [REACT_APP_ROBOFLOW_API_KEY |-> roboflowKey,
     REACT_APP_ROBOFLOW_MODEL_URL |-> roboflowUrl,
     REACT_APP_CLAUDE_API_KEY |-> claudeKey]

\* one .env file for the client build and the Relay: dotenv.config() and
\* the client build both read it
SharedEnv == Env(DetectorKey, DetectorUrl, RatingSecret)
\* the environments the client can be built in: SharedEnv, or one where the
\* rating-service credential is not set
BuildEnvs == {SharedEnv, Env(DetectorKey, DetectorUrl, Undefined)}

\* the environment of the Relay's process
RelayEnv == SharedEnv

\* process.env.X || ""
orEmpty(v) == IF v = Undefined THEN "" ELSE v

\* const ROBOFLOW_API_KEY, ROBOFLOW_MODEL_URL, CLAUDE_API_KEY
clientConstants(env) ==
    [ROBOFLOW_API_KEY |-> orEmpty(env.REACT_APP_ROBOFLOW_API_KEY),
     ROBOFLOW_MODEL_URL |-> orEmpty(env.REACT_APP_ROBOFLOW_MODEL_URL),
     CLAUDE_API_KEY |-> orEmpty(env.REACT_APP_CLAUDE_API_KEY)]

\* the request rateIndividualOutfit sends: fetch("/api/rate-outfit", {method,
\* headers: {"Content-Type"}, body: JSON.stringify({model, max_tokens,
\* messages})}); the body is held as the JSON value and the form of its text
ratingRequest(data) ==
    [url |-> "/api/rate-outfit",
     headers |-> [ContentType |-> "application/json"],
     body |-> [value |-> [model |-> "claude-3-5-sonnet-20241022",
                          max_tokens |-> 300, data |-> data],
               form |-> "compact"]]

\* the concurrent requests the Relay handles
MaxRequests == 2
ReqIds == 1..MaxRequests

NoBody == [value |-> [model |-> "", max_tokens |-> 0, data |-> ""],
           form |-> "none"]
NoOutcome == [kind |-> "none", status |-> 0, json |-> FALSE,
              data |-> [type |-> "none", text |-> ""]]

IdleHandler ==
    [pc |-> "none", raw |-> NoBody, calls |-> <<>>, answer |-> NoOutcome,
     responses |-> <<>>]

\* express.json({limit: "50mb"}): the body text parsed into req.body; text
\* that is not JSON is refused before the handler runs
expressJson(raw) ==
    [ok |-> raw.form # "malformed", body |-> raw.value]

\* JSON.stringify(value): the compact text of the value
JSONStringify(value) == [value |-> value, form |-> "compact"]

\* the upstream call without the x-api-key header
upstreamCallNoKey(reqBody) ==
    [url |-> "https://api.anthropic.com/v1/messages",
     apiKey |-> "", version |-> "2023-06-01",
     body |-> JSONStringify(reqBody)]
\* fetch("https://api.anthropic.com/v1/messages", {method: "POST", headers:
\* {"x-api-key": process.env.REACT_APP_CLAUDE_API_KEY, "anthropic-version"},
\* body: JSON.stringify(req.body)})
upstreamCall(reqBody) ==
    [url |-> "https://api.anthropic.com/v1/messages",
     apiKey |-> RelayEnv.REACT_APP_CLAUDE_API_KEY, version |-> "2023-06-01",
     body |-> JSONStringify(reqBody)]

\* res.json(data)
resJson(data) == [status |-> 200, body |-> data]
\* catch: res.status(500).json({error: "Failed to rate outfit"})
catchResponse ==
    [status |-> 500, body |-> [type |-> "relayError",
                               text |-> "Failed to rate outfit"]]
\* the body parser's refusal of a body that is not JSON
badRequestResponse ==
    [status |-> 400, body |-> [type |-> "html", text |-> "Bad Request"]]

\* the handler from its start to await fetch(...), for the body text raw
relayReceive(raw) ==
    LET parsed == expressJson(raw) IN
    IF parsed.ok
    THEN [IdleHandler EXCEPT !.pc = "awaitFetch", !.raw = raw,
                             !.calls = <<upstreamCall(parsed.body)>>]
    ELSE [IdleHandler EXCEPT !.pc = "refused", !.raw = raw,
                             !.responses = <<badRequestResponse>>]

\* the handler from the point fetch settles with out to await response.json()
relayFetchSettles(h, out) ==
    IF out.kind = "reject"
    THEN [h EXCEPT !.pc = "done", !.answer = out,
                   !.responses = Append(@, catchResponse)]
    ELSE [h EXCEPT !.pc = "awaitJson", !.answer = out]

\* the handler from the point response.json() settles to its end
relayBodyRead(h) ==
    IF h.answer.json
    THEN [h EXCEPT !.pc = "done",
                   !.responses = Append(@, resJson(h.answer.data))]
    ELSE [h EXCEPT !.pc = "done", !.responses = Append(@, catchResponse)]

(***************************************************************************)
(* Inputs of a pipeline run: what the environment (file reader, detector,   *)
(* image decoder, rating service) can answer.                              *)
(***************************************************************************)
FileReadOutcomes == {"ok", "notString", "readerError"}

\* the boxes the detector reports in a pipeline run: one inside the image,
\* one overflowing its right edge
InsideBox ==
    [x |-> 2, y |-> 2, width |-> 2, height |-> 2, confidence |-> 90]
OverflowBox ==
    [x |-> ImgSize, y |-> 2, width |-> 2, height |-> 4, confidence |-> 55]
PipelineBoxes == {InsideBox, OverflowBox}

\* sequences over S of length lo..hi
SeqsOf(S, lo, hi) == UNION {[1..n -> S] : n \in lo..hi}

\* predictions lists of a pipeline run: person i of a list is InsideBox or
\* OverflowBox, by position, so that lists differ by length only
PipelinePredictions ==
    {[i \in 1..n |-> IF i % 2 = 1 THEN InsideBox ELSE OverflowBox] :
        n \in 0..MaxPeople}

DetectResponses ==
    {[kind |-> k, predictions |-> <<>>] :
        k \in {"networkError", "httpError", "invalidJson", "noOutputs",
               "noPredictions", "predictionsNotArray"}}
    \cup {[kind |-> "predictions", predictions |-> ps] :
        ps \in PipelinePredictions}

NoText == CharsText(<<>>)
\* answers of the rating service in a pipeline run: a transport failure, an
\* explicit error, a JSON object answer, a free-text answer, the JSON text
\* null
PipelineRateResponses ==
    {RateResponse("fail", FALSE, "none", "", FALSE, NoText),
     RateResponse("ok", TRUE, "error", "Overloaded", FALSE, NoText),
     RateResponse("ok", TRUE, "message", "", TRUE,
                  ObjectText(Num(7), Str(<<"o", "k">>))),
     RateResponse("ok", TRUE, "message", "", TRUE,
                  CharsText(<<"8", "/", "1", "0">>)),
     RateResponse("ok", TRUE, "message", "", TRUE,
                  CharsText(<<"n", "u", "l", "l">>))}

(***************************************************************************)
(* State machine.                                                          *)
(***************************************************************************)
Init ==
    /\ selectedFile = NoFile
    /\ previewUrl = NoUrl
    /\ isProcessing = FALSE
    /\ outfitRatings = <<>>
    /\ error = Null
    /\ imageSize = [f \in Images |-> [w |-> ImgSize, h |-> ImgSize]]
    /\ runs = [k \in RunIds |-> IdleRun]
    /\ net = {}
    /\ client = clientConstants(SharedEnv)
    /\ relay = [i \in ReqIds |-> IdleHandler]

\* handleFileSelect without setOutfitRatings([])
handleFileSelectKeepsRatings ==
    \E f \in Images :
        /\ selectedFile' = f
        /\ previewUrl' = f
        /\ error' = Null
        /\ UNCHANGED <<outfitRatings, isProcessing, imageSize, runs, net, client,
                     relay>>
\* onChange of the file and camera inputs, with a file chosen:
\* setSelectedFile(file); setPreviewUrl(URL.createObjectURL(file));
\* setOutfitRatings([]); setError(null)
handleFileSelect ==
    \E f \in Images :
        /\ selectedFile' = f
        /\ previewUrl' = f
        /\ outfitRatings' = <<>>
        /\ error' = Null
        /\ UNCHANGED <<isProcessing, imageSize, runs, net, client,
                     relay>>

\* MIME types of a dropped file
DropTypes == {"image/png", "image/jpeg", "text/plain"}
\* file.type.startsWith("image/")
isImageType(type) == type \in {"image/png", "image/jpeg"}

\* onDrop with a file: anything but image/* is ignored
handleDrop ==
    \E f \in Images, type \in DropTypes :
        /\ isImageType(type)
        /\ selectedFile' = f
        /\ previewUrl' = f
        /\ outfitRatings' = <<>>
        /\ error' = Null
        /\ UNCHANGED <<isProcessing, imageSize, runs, net, client,
                     relay>>

\* the Analyze button enabled whatever isProcessing is
analyzeEnabledAlways == selectedFile # NoFile
\* {selectedFile && <button onClick={detectPeople} disabled={isProcessing}>}
analyzeEnabled == selectedFile # NoFile /\ ~isProcessing

\* what a run leaves in React state when it reaches r, and the requests in
\* flight after the one it was waiting for (answered) is settled:
\* catch (err) { setError(err.message) } finally { setIsProcessing(false) };
\* setOutfitRatings(ratings) at the end of rateOutfits, then finally
Land(k, r, answered) ==
    /\ net' = (net \ answered) \cup requests(k, r)
    /\ UNCHANGED <<selectedFile, previewUrl, imageSize, client, relay>>
    /\ CASE r.pc = "throw" ->
              /\ runs' = [runs EXCEPT ![k] = [r EXCEPT !.pc = "failed"]]
              /\ error' = r.err
              /\ isProcessing' = FALSE
              /\ UNCHANGED outfitRatings
         [] r.pc = "publish" ->
              /\ runs' = [runs EXCEPT ![k] = [r EXCEPT !.pc = "done",
                                                      !.writes = @ + 1]]
              /\ outfitRatings' = r.ratings
              /\ isProcessing' = FALSE
              /\ UNCHANGED error
         [] OTHER ->
              /\ runs' = [runs EXCEPT ![k] = r]
              /\ UNCHANGED <<isProcessing, outfitRatings, error>>

\* a click on Analyze Outfits: detectPeople up to await fileToBase64
detectPeople(k) ==
    /\ analyzeEnabled
    /\ selectedFile # NoFile
    /\ ~Active(k)
    /\ \A j \in RunIds : j < k => Active(j)
    /\ isProcessing' = TRUE
    /\ error' = Null
    /\ runs' = [runs EXCEPT ![k] =
                  [IdleRun EXCEPT !.pc = "readFile", !.file = selectedFile,
                                  !.url = previewUrl,
                                  !.prevDone = IF runs[k].pc = "done"
                                               THEN runs[k].file
                                               ELSE NoFile]]
    /\ UNCHANGED <<selectedFile, previewUrl, outfitRatings, imageSize, net,
                   client, relay>>

\* reader.onload / reader.onerror of fileToBase64
FileRead(k) ==
    /\ runs[k].pc = "readFile"
    /\ \E outcome \in FileReadOutcomes :
         Land(k, afterFileRead(runs[k], outcome), {})

\* the detector's answer arrives
DetectResponse(k) ==
    /\ runs[k].pc = "detectFetch"
    /\ [run |-> k, kind |-> "detect", idx |-> 0] \in net
    /\ \E resp \in DetectResponses :
         Land(k, afterDetectResponse(runs[k], resp),
              {[run |-> k, kind |-> "detect", idx |-> 0]})

\* img.onload or img.onerror fires
ImageLoad(k) ==
    /\ runs[k].pc = "cropLoad"
    /\ runs[k].imgLoad = "none"
    /\ \E loaded \in BOOLEAN :
         Land(k, afterImageLoad(runs[k], loaded, imageSize[runs[k].url]), {})

\* the awaited rateIndividualOutfit of run k settles on the answer resp to
\* its request q, and the loop of rateOutfits goes on to its next await
RateSettles(k, q, resp) ==
    Land(k, rateLoop(rateOutfitsSettle(
                        [runs[k] EXCEPT !.answers = Append(@, resp)],
                        rateIndividualOutfitResult(resp))), {q})

\* the answer to a rating request arrives (or the request fails)
RateResponseArrives(k) ==
    /\ runs[k].pc = "rate"
    /\ \E q \in net :
         /\ q.run = k
         /\ q.kind = "rate"
         /\ q.idx = Len(runs[k].ratings)
         /\ \E resp \in PipelineRateResponses : RateSettles(k, q, resp)

Next ==
    \/ handleFileSelect
    \/ handleDrop
    \/ \E k \in RunIds : detectPeople(k)
    \/ \E k \in RunIds : FileRead(k)
    \/ \E k \in RunIds : DetectResponse(k)
    \/ \E k \in RunIds : ImageLoad(k)
    \/ \E k \in RunIds : RateResponseArrives(k)

Spec == Init /\ [][Next]_vars

\* the pipeline with every awaited event arriving: a file read that was
\* started ends, a request that was sent is answered or fails, an image
\* whose load was started loads or fails to
FairSpec ==
    /\ Spec
    /\ \A k \in RunIds :
          /\ WF_vars(FileRead(k))
          /\ WF_vars(DetectResponse(k))
          /\ WF_vars(ImageLoad(k))
          /\ WF_vars(RateResponseArrives(k))

(***************************************************************************)
(* SpecCrop: cropDetectedPeople on its own.  A run is waiting for the      *)
(* image to load with any predictions list the detector can have returned: *)
(* one box of any geometry within the bounds, or a list of boxes with      *)
(* pairwise distinct confidences; the image has any size within the bound. *)
(***************************************************************************)
CropBoxes ==
    {[x |-> x, y |-> y, width |-> w, height |-> h, confidence |-> 50] :
        x \in 0..MaxCoord, y \in 0..MaxCoord, w \in 0..MaxBox, h \in 0..MaxBox}

CropListBoxes ==
    {InsideBox, OverflowBox,
     [x |-> 0, y |-> 0, width |-> 1, height |-> 1, confidence |-> 20]}

CropPredictions ==
    SeqsOf(CropBoxes, 1, 1) \cup SeqsOf(CropListBoxes, 1, MaxPeople)

ImageSizes == {[w |-> w, h |-> h] : w \in 1..MaxImg, h \in 1..MaxImg}

InitCrop ==
    /\ selectedFile = 1
    /\ previewUrl = 1
    /\ isProcessing = TRUE
    /\ outfitRatings = <<>>
    /\ error = Null
    /\ \E size \in ImageSizes : imageSize = [f \in Images |-> size]
    /\ \E ps \in CropPredictions :
         runs = [k \in RunIds |->
                   IF k = 1
                   THEN [IdleRun EXCEPT !.pc = "cropLoad", !.file = 1,
                                        !.url = 1, !.predictions = ps,
                                        !.detectKind = "predictions",
                                        !.cropCalled = TRUE]
                   ELSE IdleRun]
    /\ net = {}
    /\ client = clientConstants(SharedEnv)
    /\ relay = [i \in ReqIds |-> IdleHandler]

NextCrop == \E k \in RunIds : ImageLoad(k)

SpecCrop == InitCrop /\ [][NextCrop]_vars

(***************************************************************************)
(* SpecRate: rateOutfits on one crop, with rateIndividualOutfit given any  *)
(* image data and any answer within the bounds.  An answer text is a JSON  *)
(* object or a few tokens written one after the other.                     *)
(***************************************************************************)
\* the longest free-text answer, in tokens
MaxTokens == 3

\* pieces of free-text answers: scores out of ten, bare numbers, words, the
\* JSON text null
RateTokens ==
    {<<"8", "/", "1", "0">>, <<"/", "1", "0">>, <<"3">>, <<"1">>, <<"0">>,
     <<" ">>, <<"a">>, <<"t", "h">>, <<"n", "u", "l", "l">>}

\* the tokens of ts written one after the other
RECURSIVE Concat(_)
Concat(ts) == IF ts = <<>> THEN <<>> ELSE Head(ts) \o Concat(Tail(ts))

FreeTexts ==
    {CharsText(Concat(ts)) : ts \in SeqsOf(RateTokens, 0, MaxTokens)}

\* JSON object answers: score in and out of the range the prompt asks for,
\* null, or missing; feedback present or missing
ObjectTexts ==
    {ObjectText(sc, fb) :
        sc \in {Num(0), Num(1), Num(7), Num(10), Num(11), NullValue,
                UndefinedValue},
        fb \in {Str(<<"o", "k">>), UndefinedStr}}

RateTexts == FreeTexts \cup ObjectTexts

\* what the Relay can answer to a rating request
RateResponses ==
    {RateResponse("fail", FALSE, "none", "", FALSE, NoText),
     RateResponse("ok", FALSE, "none", "", FALSE, NoText),
     RateResponse("ok", TRUE, "none", "", FALSE, NoText)}
    \cup {RateResponse("ok", TRUE, "error", m, FALSE, NoText) :
            m \in {"", "Overloaded"}}
    \cup {RateResponse("ok", TRUE, "error", "Overloaded", TRUE,
                       ObjectText(Num(7), Str(<<"o", "k">>)))}
    \cup {RateResponse("ok", TRUE, "message", "", TRUE, t) : t \in RateTexts}

\* crop.dataUrl values given to rateIndividualOutfit: a JPEG data URL, a
\* data URL with nothing after its prefix, the empty string, "data:,"
RateImageData ==
    {[prefix |-> JpegPrefix, payload |-> <<1, 0, 0, 2, 2>>],
     [prefix |-> JpegPrefix, payload |-> <<>>],
     [prefix |-> "", payload |-> <<>>],
     [prefix |-> EmptyCanvasUrl, payload |-> <<>>]}

InitRate ==
    /\ selectedFile = 1
    /\ previewUrl = 1
    /\ isProcessing = TRUE
    /\ outfitRatings = <<>>
    /\ error = Null
    /\ imageSize = [f \in Images |-> [w |-> ImgSize, h |-> ImgSize]]
    /\ \E d \in RateImageData :
         runs = [k \in RunIds |->
                   IF k = 1
                   THEN [IdleRun EXCEPT
                           !.pc = "rateOutfits", !.file = 1, !.url = 1,
                           !.predictions = <<InsideBox>>,
                           !.detectKind = "predictions",
                           !.cropCalled = TRUE, !.imgLoad = "onload",
                           !.crops = <<[id |-> 0, dataUrl |-> d,
                                        bbox |-> [x |-> 4, y |-> 4,
                                                  width |-> 4, height |-> 4],
                                        confidence |-> 90]>>]
                   ELSE IdleRun]
    /\ net = {}
    /\ client = clientConstants(SharedEnv)
    /\ relay = [i \in ReqIds |-> IdleHandler]

\* await rateOutfits(crops) is entered: the loop runs up to its first await
RateOutfitsStarts(k) ==
    /\ runs[k].pc = "rateOutfits"
    /\ Land(k, rateLoop([runs[k] EXCEPT !.ratings = <<>>]), {})

\* the answer to the rating request arrives, any answer within the bounds
RateAnswerArrives(k) ==
    /\ runs[k].pc = "rate"
    /\ \E q \in net :
         /\ q.run = k
         /\ q.kind = "rate"
         /\ q.idx = Len(runs[k].ratings)
         /\ \E resp \in RateResponses : RateSettles(k, q, resp)

NextRate ==
    \/ \E k \in RunIds : RateOutfitsStarts(k)
    \/ \E k \in RunIds : RateAnswerArrives(k)

SpecRate == InitRate /\ [][NextRate]_vars

(***************************************************************************)
(* SpecRelay: the Relay serving concurrent requests, next to a client      *)
(* built in any of the build environments.                                 *)
(***************************************************************************)
\* the image data callers send
CallerImages == {"imgA", "imgB"}

\* body texts callers send: the client's own rating requests, the same JSON
\* spelled with whitespace, and a text that is not JSON
CallerBodies ==
    {ratingRequest(d).body : d \in CallerImages}
    \cup {[ratingRequest("imgA").body EXCEPT !.form = "spaced"],
          [ratingRequest("imgA").body EXCEPT !.form = "malformed"]}

\* how the upstream fetch settles: rejected, or resolved with a status and a
\* body that is JSON (data) or not
UpstreamOutcomes ==
    {[kind |-> "reject", status |-> 0, json |-> FALSE,
      data |-> [type |-> "none", text |-> ""]],
     [kind |-> "resolve", status |-> 200, json |-> TRUE,
      data |-> [type |-> "message", text |-> "answerA"]],
     [kind |-> "resolve", status |-> 200, json |-> TRUE,
      data |-> [type |-> "message", text |-> "answerB"]],
     [kind |-> "resolve", status |-> 401, json |-> TRUE,
      data |-> [type |-> "error", text |-> "invalid x-api-key"]],
     [kind |-> "resolve", status |-> 502, json |-> FALSE,
      data |-> [type |-> "none", text |-> ""]]}

InitRelay ==
    /\ selectedFile = NoFile
    /\ previewUrl = NoUrl
    /\ isProcessing = FALSE
    /\ outfitRatings = <<>>
    /\ error = Null
    /\ imageSize = [f \in Images |-> [w |-> ImgSize, h |-> ImgSize]]
    /\ runs = [k \in RunIds |-> IdleRun]
    /\ net = {}
    /\ \E env \in BuildEnvs : client = clientConstants(env)
    /\ relay = [i \in ReqIds |-> IdleHandler]

\* a POST /api/rate-outfit arrives and its handler runs to its first await
RelayReceives(i) ==
    /\ relay[i].pc = "none"
    /\ \E raw \in CallerBodies :
         relay' = [relay EXCEPT ![i] = relayReceive(raw)]
    /\ UNCHANGED <<selectedFile, previewUrl, isProcessing, outfitRatings,
                   error, imageSize, runs, net, client>>

\* the upstream fetch of handler i settles
RelayFetchSettles(i) ==
    /\ relay[i].pc = "awaitFetch"
    /\ \E out \in UpstreamOutcomes :
         relay' = [relay EXCEPT ![i] = relayFetchSettles(relay[i], out)]
    /\ UNCHANGED <<selectedFile, previewUrl, isProcessing, outfitRatings,
                   error, imageSize, runs, net, client>>

\* response.json() of handler i settles
RelayBodyRead(i) ==
    /\ relay[i].pc = "awaitJson"
    /\ relay' = [relay EXCEPT ![i] = relayBodyRead(relay[i])]
    /\ UNCHANGED <<selectedFile, previewUrl, isProcessing, outfitRatings,
                   error, imageSize, runs, net, client>>

NextRelay ==
    \/ \E i \in ReqIds : RelayReceives(i)
    \/ \E i \in ReqIds : RelayFetchSettles(i)
    \/ \E i \in ReqIds : RelayBodyRead(i)

SpecRelay == InitRelay /\ [][NextRelay]_vars

(***************************************************************************)
(* Properties.                                                             *)
(***************************************************************************)
\* run k ends Done in this step: rateOutfits publishes and finally runs
Publishes(k) == runs[k].pc \in ActivePcs /\ runs'[k].pc = "done"
\* run k starts in this step
Starts(k) == ~Active(k) /\ runs'[k].pc = "readFile"
\* run k is in flight for an image that is no longer the selected one
Superseded(k) == Active(k) /\ runs[k].file # selectedFile
\* the image a crop's pixels were read from (NoUrl for a crop without pixels)
CropImage(crop) ==
    IF crop.dataUrl.payload = <<>> THEN NoUrl ELSE crop.dataUrl.payload[1]

\* the entry rateOutfits must hold for a call that threw
IsFailedEntry(entry, call) ==
    /\ entry.error
    /\ entry.rating = NullValue
    /\ entry.feedback = Str(<<call.message>>)
\* the entry rateOutfits must hold for a call that returned
IsRatedEntry(entry, call) ==
    /\ ~entry.error
    /\ entry.rating = call.score
    /\ entry.feedback = call.feedback

C2_SupersededRunIgnored ==
    [][\A k \in RunIds :
         (Superseded(k) /\ runs'[k] # runs[k]) =>
            /\ outfitRatings' = outfitRatings
            /\ error' = error]_vars

\* C3 as stated: while a run is in flight no Rating list of an earlier run is
\* held in outfitRatings, and no ratings are published alongside an error.
C3_RetryDiscardsRatings ==
    /\ (\E k \in RunIds : Active(k)) => outfitRatings = <<>>
    /\ error # Null => outfitRatings = <<>>

\* C4: selecting another image empties outfitRatings and clears error; a run
\* starts on the image selected at that moment; and every Rating a run
\* publishes has a crop read from the image the run started on.
C4_NewImageNoStaleRatings ==
    [][/\ selectedFile' # selectedFile =>
            (outfitRatings' = <<>> /\ error' = Null)
       /\ \A k \in RunIds :
            /\ Starts(k) =>
                 (runs'[k].file = selectedFile /\ runs'[k].url = previewUrl)
            /\ Publishes(k) =>
                 \A i \in 1..Len(outfitRatings') :
                    CropImage(outfitRatings'[i].crop) \in {NoUrl, runs[k].url}]_vars

\* C4 witness: a run that started after a run on another image had ended
\* Done has published ratings, all of the image now selected.
C4_Witness ==
    \E k \in RunIds :
        /\ runs[k].pc = "done"
        /\ runs[k].prevDone # NoFile
        /\ runs[k].prevDone # runs[k].file
        /\ runs[k].file = selectedFile
        /\ outfitRatings # <<>>
        /\ \A i \in 1..Len(outfitRatings) :
              CropImage(outfitRatings[i].crop) = selectedFile

\* C5: a run calls setOutfitRatings at most once, as its last step, when
\* every crop has had its rating call settled; the list it publishes has one
\* Rating per Crop, in crop order, with Rating[i].id = Crop[i].id and
\* Rating[i].crop = Crop[i]; outfitRatings changes in no other way than by
\* such a publication or by being emptied.
C5_PublishedListMatchesCrops ==
    /\ [](\A k \in RunIds :
            /\ runs[k].writes <= 1
            /\ Active(k) => runs[k].writes = 0)
    /\ [][/\ \A k \in RunIds :
               runs'[k].writes > runs[k].writes =>
                  LET r == runs'[k] IN
                  /\ Publishes(k)
                  /\ Len(r.calls) = Len(r.crops)
                  /\ Len(outfitRatings') = Len(r.crops)
                  /\ \A i \in 1..Len(r.crops) :
                        /\ outfitRatings'[i].id = r.crops[i].id
                        /\ outfitRatings'[i].crop = r.crops[i]
          /\ outfitRatings' # outfitRatings =>
               \/ outfitRatings' = <<>>
               \/ \E k \in RunIds : runs'[k].writes > runs[k].writes]_vars

\* C5 witness: a run has published, once, a list of two Ratings whose ids
\* are 0 and 1.
C5_Witness ==
    \E k \in RunIds :
        /\ runs[k].pc = "done"
        /\ runs[k].writes = 1
        /\ Len(runs[k].crops) = 2
        /\ outfitRatings = runs[k].ratings
        /\ outfitRatings[1].id = 0
        /\ outfitRatings[2].id = 1

\* the requests of run k in flight
InFlight(k) == {q \in net : q.run = k}

\* C6: a run has at most one request in flight; while the detection request
\* is in flight no rating call has been made; a rating request in flight is
\* the one for the crop after those whose calls have settled, so requests
\* go out one at a time in increasing crop order.
C6_OneRequestAtATime ==
    \A k \in RunIds :
        /\ Cardinality(InFlight(k)) <= 1
        /\ \A q \in InFlight(k) :
              /\ q.kind = "detect" =>
                    (runs[k].pc = "detectFetch" /\ runs[k].calls = <<>>)
              /\ q.kind = "rate" =>
                    /\ runs[k].pc = "rate"
                    /\ runs[k].detectKind = "predictions"
                    /\ q.idx = Len(runs[k].calls)
                    /\ q.idx < Len(runs[k].crops)

\* C6 witness: the rating request of the second crop is in flight, the call
\* for the first crop having settled.
C6_Witness ==
    \E k \in RunIds :
        /\ [run |-> k, kind |-> "rate", idx |-> 1] \in net
        /\ Len(runs[k].calls) = 1

\* C7: at most one run is in flight; while one is, isProcessing is true and
\* the Analyze button cannot start another; isProcessing is true only then.
C7_OneRunAtATime ==
    /\ Cardinality({k \in RunIds : Active(k)}) <= 1
    /\ (\E k \in RunIds : Active(k)) <=> isProcessing
    /\ isProcessing => \A k \in RunIds : ~ENABLED detectPeople(k)

\* C7 witness: a run is in flight with an image selected, so that a click on
\* an enabled button would start a second one.
C7_Witness ==
    /\ \E k \in RunIds : runs[k].pc = "rate"
    /\ \E k \in RunIds : ~Active(k)
    /\ selectedFile # NoFile
    /\ isProcessing

\* C8: a run whose detection response parsed and held an empty predictions
\* list has ended Failed with the no-detections error, has not called
\* cropDetectedPeople or rateIndividualOutfit, has no request in flight and
\* has not written outfitRatings.
C8_EmptyPredictionsFail ==
    \A k \in RunIds :
        (runs[k].detectKind = "predictions" /\ runs[k].predictions = <<>>) =>
            /\ runs[k].pc = "failed"
            /\ runs[k].err = "No people detected in the image"
            /\ ~runs[k].cropCalled
            /\ runs[k].crops = <<>>
            /\ runs[k].calls = <<>>
            /\ runs[k].writes = 0
            /\ InFlight(k) = {}

\* C8 witness: a run got an empty predictions list and the no-detections
\* error is shown.
C8_Witness ==
    \E k \in RunIds :
        /\ runs[k].detectKind = "predictions"
        /\ runs[k].predictions = <<>>
        /\ runs[k].pc = "failed"
        /\ error = "No people detected in the image"
        /\ ~isProcessing

\* the source rectangle reg (half pixels) lies inside an image of this size
RegionInsideImage(reg, size) ==
    /\ 0 <= reg.sx
    /\ 0 <= reg.sy
    /\ reg.sw >= 0
    /\ reg.sh >= 0
    /\ reg.sx + reg.sw <= 2 * size.w
    /\ reg.sy + reg.sh <= 2 * size.h

\* C9 as stated: every region cropDetectedPeople renders lies inside the
\* image: 0 <= sourceX, 0 <= sourceY, actualWidth >= 0, actualHeight >= 0,
\* sourceX + actualWidth <= imageWidth, sourceY + actualHeight <= imageHeight.
C9_CropRegionInsideImage ==
    \A k \in RunIds : \A i \in 1..Len(runs[k].drawn) :
        RegionInsideImage(runs[k].drawn[i], imageSize[runs[k].url])

\* C10: when the image has decoded, cropDetectedPeople has returned one Crop
\* per Detection, in detection order, with Crop[i].id = i (zero-based) and
\* the confidence of Detection i.
C10_OneCropPerDetection ==
    \A k \in RunIds :
        runs[k].imgLoad = "onload" =>
            /\ Len(runs[k].predictions) >= 1
            /\ Len(runs[k].crops) = Len(runs[k].predictions)
            /\ \A i \in 1..Len(runs[k].predictions) :
                  /\ runs[k].crops[i].id = i - 1
                  /\ runs[k].crops[i].confidence =
                        runs[k].predictions[i].confidence

\* C10 witness: two detections of different confidence have been cropped.
C10_Witness ==
    \E k \in RunIds :
        /\ runs[k].imgLoad = "onload"
        /\ Len(runs[k].crops) = 2
        /\ runs[k].crops[1].confidence # runs[k].crops[2].confidence

\* C11: a run whose image failed to decode got an empty Crop list from
\* cropDetectedPeople (nothing was raised there) and has ended Failed with
\* the crop-extraction error: it has made no rating call, has no request in
\* flight and has not written outfitRatings.
C11_DecodeFailureFailsRun ==
    \A k \in RunIds :
        runs[k].imgLoad = "onerror" =>
            /\ runs[k].crops = <<>>
            /\ runs[k].pc = "failed"
            /\ runs[k].err = "Failed to create crops from detected people"
            /\ runs[k].calls = <<>>
            /\ runs[k].writes = 0
            /\ InFlight(k) = {}

\* C11 witness: img.onerror has fired in a run with detections and the
\* crop-extraction error is shown.
C11_Witness ==
    \E k \in RunIds :
        /\ runs[k].imgLoad = "onerror"
        /\ Len(runs[k].predictions) >= 1
        /\ runs[k].pc = "failed"
        /\ error = "Failed to create crops from detected people"
        /\ ~isProcessing

\* the bounded rating range of a published score
InRatingRange(v) == v.type = "number" /\ v.value >= 0 /\ v.value <= 10

\* C12: every Rating of the published list that is not marked failed carries
\* a numeric score between 0 and 10 inclusive, whatever the rating service
\* answered, and rating is null exactly when the entry is marked failed.
C12_PublishedScoresInRange ==
    \A i \in 1..Len(outfitRatings) :
        LET entry == outfitRatings[i] IN
        /\ ~entry.error => InRatingRange(entry.rating)
        /\ (entry.rating = NullValue) <=> entry.error

\* the answer resp brings an answer text to the parse: the request was
\* answered with a body that is no error and has content[0].text
ReachesParse(resp) ==
    /\ resp.transport = "ok"
    /\ resp.json
    /\ resp.type # "error"
    /\ resp.hasContent
    /\ (resp.content.object \/ resp.content.chars # <<>>)

\* the answer text of resp is not valid JSON: the fallback path
OnFallbackPath(resp) ==
    /\ ReachesParse(resp)
    /\ ~resp.content.object
    /\ LET t == TrimRight(TrimLeft(resp.content.chars)) IN
         ~(IsJSONNumber(t) \/ IsJSONLiteral(t))

ContainsDigit(t) == \E i \in 1..Len(t) : t[i] \in Digits

\* C13: on the fallback path the call returns an integer score in [1,10],
\* which is 5 when the text contains no number, and the returned feedback
\* is the full raw answer text.
C13_FallbackScoreAndFeedback ==
    \A k \in RunIds : \A i \in 1..Len(runs[k].calls) :
        LET resp == runs[k].answers[i]
            res == runs[k].calls[i]
        IN OnFallbackPath(resp) =>
             /\ ~res.threw
             /\ ~res.isNull
             /\ res.score.type = "number"
             /\ res.score.value \in 1..10
             /\ (~ContainsDigit(resp.content.chars) => res.score.value = 5)
             /\ res.feedback = Str(resp.content.chars)

\* C13 witness: a fallback call on a text whose number lies above 10 has
\* returned 10, and the entry is published with the text as feedback.
C13_Witness ==
    \E k \in RunIds :
        /\ Len(runs[k].calls) = 1
        /\ OnFallbackPath(runs[k].answers[1])
        /\ runs[k].answers[1].content.chars = <<"1", "8", "/", "1", "0">>
        /\ runs[k].calls[1].score = Num(10)
        /\ Len(outfitRatings) = 1
        /\ outfitRatings[1].feedback = Str(<<"1", "8", "/", "1", "0">>)

\* the positions at which a score out of ten ("N/10") starts in t
SlashTenStarts(t) ==
    {p \in 1..Len(t) :
        /\ matchSlashTen(t, p)
        /\ (p = 1 \/ t[p - 1] \notin Digits)}

\* C14: on the fallback path, whenever the text contains an "N/10" pattern
\* the returned score is N clamped to [1,10], also when the text contains
\* other integers.
C14_SlashTenScoreExtracted ==
    \A k \in RunIds : \A i \in 1..Len(runs[k].calls) :
        LET resp == runs[k].answers[i]
            res == runs[k].calls[i]
            t == resp.content.chars
        IN (OnFallbackPath(resp) /\ SlashTenStarts(t) # {}) =>
             \E p \in SlashTenStarts(t) :
                 res.score =
                     Num(Min(Max(parseInt(t, p, DigitRunEnd(t, p)), 1), 10))

\* C15: when the answer text parses as a JSON object, the call returns its
\* score and feedback exactly as given, with no clamping, and the fallback
\* extraction is not applied.
C15_ParsedReturnedAsGiven ==
    \A k \in RunIds : \A i \in 1..Len(runs[k].calls) :
        LET resp == runs[k].answers[i]
            res == runs[k].calls[i]
        IN (ReachesParse(resp) /\ resp.content.object) =>
             /\ ~res.threw
             /\ res.score = resp.content.score
             /\ res.feedback = resp.content.feedback

\* C15 witness: the answers {"score": 7, "feedback": "ok"} and an object
\* with score 11 have each been returned as given (7 and "ok"; 11).
C15_Witness ==
    \E k \in RunIds :
        /\ Len(runs[k].calls) = 1
        /\ ReachesParse(runs[k].answers[1])
        /\ runs[k].answers[1].content.object
        /\ \/ /\ runs[k].answers[1].content.score = Num(7)
              /\ runs[k].calls[1].score = Num(7)
              /\ runs[k].calls[1].feedback = Str(<<"o", "k">>)
           \/ /\ runs[k].answers[1].content.score = Num(11)
              /\ runs[k].calls[1].score = Num(11)

\* the image data of a crop is empty once its data-URL prefix is stripped
EmptyAfterStrip(crop) ==
    /\ crop.dataUrl.payload = <<>>
    /\ crop.dataUrl.prefix \in ImageDataPrefixes \cup {""}

\* the answer resp is a body the call could read (fetch and response.json()
\* both resolved)
Answered(resp) == resp.transport = "ok" /\ resp.json

Accepted(i) == relay[i].raw.form \in {"compact", "spaced"}

\* what the Relay owes the caller of request i once its handler has ended:
\* the rating service's JSON unchanged when the call returned a JSON body,
\* the {error} object with status 500 when the call failed or its body was
\* not JSON
OwedResponse(i) ==
    IF relay[i].answer.kind = "resolve" /\ relay[i].answer.json
    THEN [status |-> 200, body |-> relay[i].answer.data]
    ELSE [status |-> 500, body |-> [type |-> "relayError",
                                    text |-> "Failed to rate outfit"]]

\* request i got its one upstream call and at most one answer, its own
RelayedOnce(i) ==
    /\ Len(relay[i].calls) = 1
    /\ relay[i].calls[1].body.value = relay[i].raw.value
    /\ relay[i].calls[1].apiKey = RatingSecret
    /\ relay[i].pc \in {"awaitFetch", "awaitJson"} => relay[i].responses = <<>>
    /\ relay[i].pc = "done" => relay[i].responses = <<OwedResponse(i)>>

Carried(req) ==
    {req.headers.ContentType, req.body.value.model, req.body.value.data}

\* C17: the rating-service credential is held and used by the Relay only:
\* it is not part of the client's state (client code does not read it) and
\* it is in no request the client sends.
C17_CredentialOnlyInRelay ==
    /\ client.CLAUDE_API_KEY # RatingSecret
    /\ \A d \in CallerImages : RatingSecret \notin Carried(ratingRequest(d))
    /\ \A i \in ReqIds :
          relay[i].pc # "none" =>
              RatingSecret \notin {relay[i].raw.value.model,
                                   relay[i].raw.value.data}

\* the ways the detection call fails, by the condition they belong to
TransportFailures == {"networkError", "httpError"}
MalformedResponses ==
    {"invalidJson", "noOutputs", "noPredictions", "predictionsNotArray"}

\* the detection call of run r failed
DetectionFailed(r) ==
    \/ r.detectKind \in TransportFailures \cup MalformedResponses
    \/ (r.detectKind = "predictions" /\ r.predictions = <<>>)

\* the condition the failure of run r belongs to
FailureCondition(r) ==
    IF r.detectKind \in TransportFailures THEN "transport"
    ELSE IF r.detectKind \in MalformedResponses THEN "malformed"
    ELSE "noDetections"

\* the messages each condition can leave in error
ConditionMessages(c) ==
    CASE c = "transport" ->
           {"Failed to fetch",
            "Failed to detect people in image: Internal Server Error"}
      [] c = "malformed" ->
           {"Unexpected token < in JSON at position 0",
            "Invalid response format from Roboflow API",
            "No predictions found in the API response"}
      [] c = "noDetections" -> {"No people detected in the image"}

\* C18: any failure of the detection call (transport failure or non-success
\* status, a response without the outputs/predictions structure, an empty
\* predictions list) aborts the whole run: the step that takes the failure
\* sets error to the failure's message and ends the run Failed, no crop is
\* extracted, no rating request is sent and the run does not write
\* outfitRatings; the messages of the three conditions are pairwise
\* distinct.
C18_DetectionFailureAbortsRun ==
    [][\A k \in RunIds :
          DetectionFailed(runs'[k]) =>
              /\ runs'[k].pc = "failed"
              /\ runs'[k].err \in ConditionMessages(FailureCondition(runs'[k]))
              /\ \A c \in {"transport", "malformed", "noDetections"} :
                     c # FailureCondition(runs'[k]) =>
                         runs'[k].err \notin ConditionMessages(c)
              /\ ~runs'[k].cropCalled
              /\ runs'[k].crops = <<>>
              /\ runs'[k].calls = <<>>
              /\ runs'[k].writes = 0
              /\ \A q \in net' : q.run # k
              /\ runs[k].pc = "detectFetch" =>
                     /\ error' = runs'[k].err
                     /\ ~isProcessing'
                     /\ outfitRatings' = outfitRatings]_vars

\* run k has ended: Done with its ratings published, or Failed
Ended(k) == runs[k].pc \in {"done", "failed"}

\* C20: every started detectPeople run terminates when each awaited event
\* arrives: it ends Done or Failed with isProcessing reset to false, so the
\* pipeline never stays in processing.
C20_EveryRunTerminates ==
    \A k \in RunIds : Active(k) ~> (Ended(k) /\ ~isProcessing)

====
